---------------------------- MODULE Spec2Model ----------------------------
(***************************************************************************)
(* Model of fuzz/sst_file_writer_fuzzer.cc: the protobuf post-processor    *)
(* that sorts and deduplicates the DBOperations of a fuzz input, and the   *)
(* fuzz target that writes the operations to an SST file with             *)
(* SstFileWriter, reopens it with SstFileReader, verifies its checksum    *)
(* and removes it.                                                         *)
(***************************************************************************)
EXTENDS Integers, Sequences, FiniteSets, TLC

(***************************************************************************)
(* Bounds of the model.                                                    *)
(***************************************************************************)
\* Longest decoded operation sequence.
MaxOps == 3
\* How many times the post-processor may run on one message before the
\* target is called (it is registered to run after every mutation).
MaxPostProcess == 2

\* Harness instances (fuzzer jobs) that may run side by side.
Insts == {1, 2}

\* Keys and values are byte strings (sequences of 0..255).
Keys == {<<97>>, <<97, 98>>, <<200>>}
Values == {<<49>>, <<57>>}

\* "UNKNOWN" stands for every OpType value the switch has no case for.
SupportedTypes == {"PUT", "MERGE", "DELETE", "DELETE_RANGE"}
OpTypes == SupportedTypes \cup {"UNKNOWN"}

\* A DBOperation message.  The value is varied for PUT, whose payload it is;
\* the other types carry the first value.
DBOperation ==
  {o \in [type : OpTypes, key : Keys, value : Values] :
     o.type = "PUT" \/ o.value = <<49>>}

RECURSIVE SeqsUpTo(_, _)
SeqsUpTo(S, n) ==
  IF n = 0 THEN {<<>>}
  ELSE LET shorter == SeqsUpTo(S, n - 1)
       IN  shorter \cup {Append(s, x) : s \in {t \in shorter : Len(t) = n - 1}, x \in S}

\* The DBOperations messages the decoder may hand over.
Inputs == SeqsUpTo(DBOperation, MaxOps)

\* The messages of the instances that run in parallel: at most one operation,
\* of any type.
ParInputs ==
  {<<>>} \cup {<<[type |-> t, key |-> <<97>>, value |-> <<49>>]>> : t \in OpTypes}

\* Directories FileSystem::GetTestDirectory may name.
Dirs == {"d1", "d2"}
NoPath == ""

VARIABLES
  pc,         \* per instance: where the iteration stands
  input,      \* per instance: the DBOperations message (rewritten in place)
  decoded,    \* per instance: the message as it was before the last post-processor run
  runs,       \* per instance: post-processor runs on the message so far
  idx,        \* per instance: position of the range-for over input.operations()
  sstfile,    \* per instance: the local std::string sstfile
  calls,      \* per instance: the engine and filesystem calls made, in order
  writerOpen, \* per instance: the SstFileWriter holds an open file
  foreign,    \* per instance: it touched a file a running peer created
  fs          \* the filesystem: path -> file

vars == <<pc, input, decoded, runs, idx, sstfile, calls, writerOpen, foreign, fs>>

(***************************************************************************)
(* rocksdb::BytewiseComparator()->Compare: memcmp over the common prefix   *)
(* (bytes compared as unsigned), then the shorter string first.            *)
(***************************************************************************)
RECURSIVE Compare(_, _)
Compare(a, b) ==
  IF Len(a) = 0 \/ Len(b) = 0
    THEN (IF Len(a) < Len(b) THEN -1 ELSE IF Len(a) > Len(b) THEN 1 ELSE 0)
    ELSE IF Head(a) < Head(b) THEN -1
    ELSE IF Head(a) > Head(b) THEN 1
    ELSE Compare(Tail(a), Tail(b))

\* The comparison a buggy build would make: descending order.
KeyLessDescending(x, y) == Compare(x.key, y.key) > 0

\* The lambda handed to std::sort.
KeyLess(x, y) == Compare(x.key, y.key) < 0

\* The lambda handed to std::unique.
KeyEqual(x, y) == Compare(x.key, y.key) = 0

\* The positions of s whose element no other element must precede.
Least(s) == {j \in 1..Len(s) : \A h \in 1..Len(s) : ~KeyLess(s[h], s[j])}

\* s without its j-th element.
Without(s, j) == SubSeq(s, 1, j - 1) \o SubSeq(s, j + 1, Len(s))

\* std::sort is not stable: every arrangement of the elements that is ordered
\* by the comparison is a possible result.  Each one starts with one of the
\* least elements and goes on with an arrangement of the others.
RECURSIVE SortOutcomes(_)
SortOutcomes(s) ==
  IF Len(s) = 0 THEN {s}
  ELSE UNION {{<<s[j]>> \o t : t \in SortOutcomes(Without(s, j))} : j \in Least(s)}

\* std::unique: of every run of consecutive equal elements the first is kept.
RECURSIVE UniqueKept(_)
UniqueKept(s) ==
  IF Len(s) <= 1 THEN s
  ELSE LET front == UniqueKept(SubSeq(s, 1, Len(s) - 1))
       IN  IF KeyEqual(front[Len(front)], s[Len(s)]) THEN front
           ELSE Append(front, s[Len(s)])

\* An erase that starts one element too early.
UniqueEraseOffByOne(s) ==
  LET kept == UniqueKept(s)
  IN  IF Len(kept) = 0 THEN kept ELSE SubSeq(kept, 1, Len(kept) - 1)

\* The deduplication left out: the sorted sequence is returned as it is.
UniqueOmitted(s) == s

\* std::unique followed by erase(last, end).
Unique(s) == UniqueKept(s)


(***************************************************************************)
(* The filesystem and the engine's files.                                  *)
(***************************************************************************)
\* sstfile = dir + "/SstFileWriterFuzzer.sst": one fixed name per directory.
SstPath(d) == d \o "/SstFileWriterFuzzer.sst"

Paths == {SstPath(d) : d \in Dirs}

Absent == [present |-> FALSE, creator |-> 0, finished |-> FALSE, corrupt |-> FALSE]

FileAt(p) == IF p \in DOMAIN fs THEN fs[p] ELSE Absent

\* Instance j is between its writer Open and its return or abort.
Running(j) == pc[j] \in {"replay", "ropen", "verify", "remove"}

\* The file at p was created by a peer of i that is still running.
PeerOwned(i, p) ==
  /\ FileAt(p).present
  /\ FileAt(p).creator \in Insts \ {i}
  /\ Running(FileAt(p).creator)

\* SstFileWriter::Open creates the file at p, or truncates the one there.  A
\* writer of a running peer that still holds that file writes into it too.
CreatedFile(i, p) ==
  [present |-> TRUE, creator |-> i, finished |-> FALSE, corrupt |-> PeerOwned(i, p)]

\* SstFileWriter::Finish completes the table at p and closes it; a file a
\* peer has truncated meanwhile does not hold i's table.
FinishedFile(i, p) ==
  [fs[p] EXCEPT !.finished = TRUE, !.corrupt = @ \/ fs[p].creator # i]

\* What remove(path) may return: it cannot succeed without a file.
RemoveResults(p) == IF FileAt(p).present THEN BOOLEAN ELSE {FALSE}

NoKey == <<>>

Call(api, key, value, path, ok) ==
  [api |-> api, key |-> key, value |-> value, path |-> path, ok |-> ok]

\* A CHECK_OK that lets a failed status through.
ChecksNothing(ok) == FALSE

\* CHECK_OK(status): abort() when the status is not ok.
Aborts(ok) == ~ok

\* An emptiness test that never holds.
NeverEmpty(ops) == FALSE

\* input.operations().empty()
IsEmpty(ops) == Len(ops) = 0

\* A switch whose DELETE_RANGE case hands the range over end first.
WriterCallRangeSwapped(op, ok) ==
  CASE op.type = "PUT"          -> Call("Put", op.key, op.value, NoPath, ok)
    [] op.type = "MERGE"        -> Call("Merge", op.key, op.value, NoPath, ok)
    [] op.type = "DELETE"       -> Call("Delete", op.key, NoKey, NoPath, ok)
    [] op.type = "DELETE_RANGE" -> Call("DeleteRange", op.value, op.key, NoPath, ok)

\* The writer call the switch makes for a supported operation.
WriterCall(op, ok) ==
  CASE op.type = "PUT"          -> Call("Put", op.key, op.value, NoPath, ok)
    [] op.type = "MERGE"        -> Call("Merge", op.key, op.value, NoPath, ok)
    [] op.type = "DELETE"       -> Call("Delete", op.key, NoKey, NoPath, ok)
    [] op.type = "DELETE_RANGE" -> Call("DeleteRange", op.key, op.value, NoPath, ok)

\* A remove whose failure is treated like that of the other calls.
RemoveChecked(ok) == ~ok

\* remove(sstfile.c_str()) is a plain statement: whatever it returns, the
\* function goes on to its end.
RemoveAborts(ok) == FALSE

\* A reader opened on the directory instead of the file.
ReaderPathIsDir(i) == "d0"

\* The path handed to reader.Open: the one the writer was opened on.
ReaderPath(i) == sstfile[i]

\* A loop that stops one operation early.
LoopDoneEarly(i) == idx[i] >= Len(input[i])

\* The range-for over input.operations() has passed the last operation.
LoopDone(i) == idx[i] > Len(input[i])

\* The SstFileWriter goes out of scope on a return: its destructor gives up
\* the file it holds.
WriterDestroyed(i) == writerOpen' = [writerOpen EXCEPT ![i] = FALSE]

\* A default branch that breaks out of the switch instead of returning.
DefaultBreaks(i) ==
  /\ pc' = pc
  /\ idx' = [idx EXCEPT ![i] = @ + 1]
  /\ UNCHANGED <<calls, writerOpen>>

\* A default branch that neither returns nor moves on to the next operation.
DefaultRetries(i) ==
  /\ pc' = pc
  /\ UNCHANGED <<calls, idx, writerOpen>>

\* default: report the unsupported operation and return.
DefaultBranch(i) ==
  /\ pc' = [pc EXCEPT ![i] = "done"]
  /\ WriterDestroyed(i)
  /\ UNCHANGED <<calls, idx>>

(***************************************************************************)
(* Initial states.                                                         *)
(***************************************************************************)
InitCommon ==
  /\ decoded = [i \in Insts |-> <<>>]
  /\ runs = [i \in Insts |-> 0]
  /\ idx = [i \in Insts |-> 0]
  /\ sstfile = [i \in Insts |-> NoPath]
  /\ calls = [i \in Insts |-> <<>>]
  /\ writerOpen = [i \in Insts |-> FALSE]
  /\ foreign = [i \in Insts |-> FALSE]
  /\ fs = [p \in Paths |-> Absent]

\* One fuzzer job: instance 1 runs one iteration on any decoded message.
Init ==
  /\ pc = [i \in Insts |-> IF i = 1 THEN "decoded" ELSE "idle"]
  /\ \E m \in Inputs : input = [i \in Insts |-> IF i = 1 THEN m ELSE <<>>]
  /\ InitCommon

\* Two fuzzer jobs side by side.
InitPar ==
  /\ pc = [i \in Insts |-> "decoded"]
  /\ input \in [Insts -> ParInputs]
  /\ InitCommon

(***************************************************************************)
(* The post-processor (lines 18-33).                                       *)
(***************************************************************************)
PostProcess(i) ==
  /\ pc[i] \in {"decoded", "processed"}
  /\ runs[i] < MaxPostProcess
  /\ \E sorted \in SortOutcomes(input[i]) :
       input' = [input EXCEPT ![i] = Unique(sorted)]
  /\ decoded' = [decoded EXCEPT ![i] = input[i]]
  /\ runs' = [runs EXCEPT ![i] = @ + 1]
  /\ pc' = [pc EXCEPT ![i] = "processed"]
  /\ UNCHANGED <<idx, sstfile, calls, writerOpen, foreign, fs>>

(***************************************************************************)
(* The fuzz target (lines 44-101), one action per call it makes.           *)
(***************************************************************************)
\* Lines 45-47: an empty message returns at once.  The engine has dropped
\* its copy of the message as decoded by now.
ReturnOnEmpty(i) ==
  /\ pc[i] = "processed"
  /\ IsEmpty(input[i])
  /\ pc' = [pc EXCEPT ![i] = "done"]
  /\ decoded' = [decoded EXCEPT ![i] = <<>>]
  /\ UNCHANGED <<input, runs, idx, sstfile, calls, writerOpen, foreign, fs>>

\* Lines 49-57: fs->GetTestDirectory, CHECK_OK, sstfile = dir + name.
GetTestDirectory(i) ==
  /\ pc[i] = "processed"
  /\ ~IsEmpty(input[i])
  /\ decoded' = [decoded EXCEPT ![i] = <<>>]
  /\ \E ok \in BOOLEAN, d \in Dirs :
       /\ calls' = [calls EXCEPT ![i] = Append(@, Call("GetTestDirectory", NoKey, NoKey, NoPath, ok))]
       /\ IF Aborts(ok)
            THEN /\ pc' = [pc EXCEPT ![i] = "abort"]
                 /\ UNCHANGED sstfile
            ELSE /\ pc' = [pc EXCEPT ![i] = "wopen"]
                 /\ sstfile' = [sstfile EXCEPT ![i] = SstPath(d)]
  /\ UNCHANGED <<input, runs, idx, writerOpen, foreign, fs>>

\* Lines 60-64: writer.Open(sstfile), CHECK_OK.  Open creates the file, or
\* truncates the one at that path.
WriterOpen(i) ==
  /\ pc[i] = "wopen"
  /\ \E ok \in BOOLEAN :
       /\ calls' = [calls EXCEPT ![i] = Append(@, Call("Open", NoKey, NoKey, sstfile[i], ok))]
       /\ IF Aborts(ok)
            THEN /\ pc' = [pc EXCEPT ![i] = "abort"]
                 /\ UNCHANGED <<idx, writerOpen, foreign, fs>>
            ELSE /\ pc' = [pc EXCEPT ![i] = "replay"]
                 /\ idx' = [idx EXCEPT ![i] = 1]
                 /\ writerOpen' = [writerOpen EXCEPT ![i] = ok]
                 /\ foreign' = [foreign EXCEPT ![i] = @ \/ (ok /\ PeerOwned(i, sstfile[i]))]
                 /\ fs' = IF ok THEN [fs EXCEPT ![sstfile[i]] = CreatedFile(i, sstfile[i])]
                                 ELSE fs
  /\ UNCHANGED <<input, decoded, runs, sstfile>>

\* Lines 65-87: one turn of the loop over input.operations().
Replay(i) ==
  /\ pc[i] = "replay"
  /\ ~LoopDone(i)
  /\ LET op == input[i][idx[i]] IN
       \/ /\ op.type \in SupportedTypes
          /\ \E ok \in BOOLEAN :
               /\ calls' = [calls EXCEPT ![i] = Append(@, WriterCall(op, ok))]
               /\ IF Aborts(ok)
                    THEN /\ pc' = [pc EXCEPT ![i] = "abort"]
                         /\ UNCHANGED idx
                    ELSE /\ pc' = pc
                         /\ idx' = [idx EXCEPT ![i] = @ + 1]
          /\ UNCHANGED writerOpen
       \/ /\ op.type \notin SupportedTypes
          /\ DefaultBranch(i)
  /\ UNCHANGED <<input, decoded, runs, sstfile, foreign, fs>>

\* Lines 88-90: writer.Finish(&info), CHECK_OK.
Finish(i) ==
  /\ pc[i] = "replay"
  /\ LoopDone(i)
  /\ \E ok \in BOOLEAN :
       /\ calls' = [calls EXCEPT ![i] = Append(@, Call("Finish", NoKey, NoKey, NoPath, ok))]
       /\ IF Aborts(ok)
            THEN /\ pc' = [pc EXCEPT ![i] = "abort"]
                 /\ UNCHANGED <<writerOpen, fs>>
            ELSE /\ pc' = [pc EXCEPT ![i] = "ropen"]
                 /\ writerOpen' = [writerOpen EXCEPT ![i] = ~ok]
                 /\ fs' = IF ok /\ FileAt(sstfile[i]).present
                            THEN [fs EXCEPT ![sstfile[i]] = FinishedFile(i, sstfile[i])]
                            ELSE fs
  /\ UNCHANGED <<input, decoded, runs, idx, sstfile, foreign>>

\* What reader.Open may return for the file at p: the file must be there and
\* finished; a damaged one may or may not be noticed while it is opened.
ReaderOpenResults(p) ==
  IF ~FileAt(p).present \/ ~FileAt(p).finished THEN {FALSE}
  ELSE IF FileAt(p).corrupt THEN BOOLEAN
  ELSE {TRUE}

\* What reader.VerifyChecksum may return: the stored checksums match the
\* content unless the file was damaged.  A file unlinked meanwhile is still
\* read through the open reader, with either result.
VerifyResults(p) ==
  IF ~FileAt(p).present THEN BOOLEAN
  ELSE IF FileAt(p).corrupt \/ ~FileAt(p).finished THEN {FALSE}
  ELSE {TRUE}

\* Lines 92-95: reader.Open(sstfile), CHECK_OK.
ReaderOpen(i) ==
  /\ pc[i] = "ropen"
  /\ \E ok \in ReaderOpenResults(ReaderPath(i)) :
       /\ calls' = [calls EXCEPT ![i] = Append(@, Call("ReaderOpen", NoKey, NoKey, ReaderPath(i), ok))]
       /\ pc' = [pc EXCEPT ![i] = IF Aborts(ok) THEN "abort" ELSE "verify"]
       /\ foreign' = [foreign EXCEPT ![i] = @ \/ (ok /\ PeerOwned(i, ReaderPath(i)))]
  /\ UNCHANGED <<input, decoded, runs, idx, sstfile, writerOpen, fs>>

\* Lines 96-97: reader.VerifyChecksum(), CHECK_OK.
VerifyChecksum(i) ==
  /\ pc[i] = "verify"
  /\ \E ok \in VerifyResults(ReaderPath(i)) :
       /\ calls' = [calls EXCEPT ![i] = Append(@, Call("VerifyChecksum", NoKey, NoKey, NoPath, ok))]
       /\ pc' = [pc EXCEPT ![i] = IF Aborts(ok) THEN "abort" ELSE "remove"]
       /\ foreign' = [foreign EXCEPT ![i] = @ \/ PeerOwned(i, ReaderPath(i))]
  /\ UNCHANGED <<input, decoded, runs, idx, sstfile, writerOpen, fs>>

\* Lines 99-101: remove(sstfile.c_str()); its result is not looked at, and
\* the function returns.
Remove(i) ==
  /\ pc[i] = "remove"
  /\ \E ok \in RemoveResults(sstfile[i]) :
       /\ calls' = [calls EXCEPT ![i] = Append(@, Call("remove", NoKey, NoKey, sstfile[i], ok))]
       /\ foreign' = [foreign EXCEPT ![i] = @ \/ (ok /\ PeerOwned(i, sstfile[i]))]
       /\ fs' = IF ok THEN [fs EXCEPT ![sstfile[i]] = Absent] ELSE fs
       /\ pc' = [pc EXCEPT ![i] = IF RemoveAborts(ok) THEN "abort" ELSE "done"]
  /\ WriterDestroyed(i)
  /\ UNCHANGED <<input, decoded, runs, idx, sstfile>>

\* The environment damages bytes of a file on disk.
Corrupt(p) ==
  /\ fs[p].present
  /\ ~fs[p].corrupt
  /\ fs' = [fs EXCEPT ![p].corrupt = TRUE]
  /\ UNCHANGED <<pc, input, decoded, runs, idx, sstfile, calls, writerOpen, foreign>>

Next ==
  \/ \E i \in Insts : PostProcess(i)
  \/ \E i \in Insts : ReturnOnEmpty(i)
  \/ \E i \in Insts : GetTestDirectory(i)
  \/ \E i \in Insts : WriterOpen(i)
  \/ \E i \in Insts : Replay(i)
  \/ \E i \in Insts : Finish(i)
  \/ \E i \in Insts : ReaderOpen(i)
  \/ \E i \in Insts : VerifyChecksum(i)
  \/ \E i \in Insts : Remove(i)
  \/ \E p \in Paths : Corrupt(p)

Spec == Init /\ [][Next]_vars

SpecPar == InitPar /\ [][Next]_vars

\* The steps of instance i's iteration: the post-processor and the target.
IterationStep(i) ==
  \/ PostProcess(i)
  \/ ReturnOnEmpty(i)
  \/ GetTestDirectory(i)
  \/ WriterOpen(i)
  \/ Replay(i)
  \/ Finish(i)
  \/ ReaderOpen(i)
  \/ VerifyChecksum(i)
  \/ Remove(i)

\* The decoded messages whose keys are pairwise different, in any order.
DistinctKeyInputs ==
  {m \in Inputs : \A j, h \in 1..Len(m) : m[j].key = m[h].key => j = h}

\* One fuzzer job on a message of pairwise different keys.
InitLive ==
  /\ pc = [i \in Insts |-> IF i = 1 THEN "decoded" ELSE "idle"]
  /\ \E m \in DistinctKeyInputs : input = [i \in Insts |-> IF i = 1 THEN m ELSE <<>>]
  /\ InitCommon

\* One fuzzer job in which every call returns: an iteration that can take a
\* step takes one.  Nothing is assumed of the environment's damage to files.
SpecLive == InitLive /\ [][Next]_vars /\ \A i \in Insts : WF_vars(IterationStep(i))

(***************************************************************************)
(* Properties of the post-processor.                                       *)
(***************************************************************************)
\* The post-processor has run on instance i's message and the target has not
\* been called yet: decoded[i] is the message the last run started from.
Processed(i) == pc[i] = "processed"

\* The operations of s that carry key k.
WithKey(s, k) == {j \in 1..Len(s) : Compare(s[j].key, k) = 0}

\* The first position of s, in its stored order, that carries key k.
FirstWithKey(s, k) == CHOOSE j \in WithKey(s, k) : \A h \in WithKey(s, k) : j <= h

\* C1: once the post-processor has run on a message, every adjacent pair of
\* its operations compares strictly less under the byte-wise comparator:
\* the keys are strictly ascending and no key occurs twice.  The message is
\* not touched afterwards, so this holds at every later point of the
\* iteration as well.
C1_StrictlyAscending ==
  \A i \in Insts :
    runs[i] >= 1 =>
      \A j \in 1..(Len(input[i]) - 1) :
        Compare(input[i][j].key, input[i][j + 1].key) < 0

\* C1's case: a message with a duplicate key and keys out of order was
\* processed, and more than one operation is left.
C1_Witness ==
  /\ Processed(1)
  /\ Len(decoded[1]) = 3
  /\ Len(input[1]) = 2
  /\ Compare(decoded[1][1].key, decoded[1][2].key) > 0

C3_Idempotent ==
  \A i \in Insts :
    (Processed(i) /\ runs[i] >= 2) => input[i] = decoded[i]

\* C3's case: the post-processor ran twice on a message of several
\* operations.
C3_Witness ==
  /\ Processed(1)
  /\ runs[1] = 2
  /\ Len(input[1]) >= 2
  /\ input[1] = decoded[1]

(***************************************************************************)
(* Properties of the fuzz target.                                          *)
(***************************************************************************)
\* The target has been entered by instance i.
Entered(i) == pc[i] \in {"wopen", "replay", "ropen", "verify", "remove", "done", "abort"}

WriterOps == {"Put", "Merge", "Delete", "DeleteRange"}

\* The calls whose status goes through CHECK_OK.
CheckedCalls == {"GetTestDirectory", "Open", "Finish", "ReaderOpen", "VerifyChecksum"} \cup WriterOps

\* The positions of instance i's call log that hold a call of one of apis.
CallsOf(i, apis) == {j \in 1..Len(calls[i]) : calls[i][j].api \in apis}

\* The first position of ops whose type the switch has no case for; 0 when
\* every type is supported.
FirstUnsupported(ops) ==
  LET bad == {j \in 1..Len(ops) : ops[j].type \notin SupportedTypes}
  IN  IF bad = {} THEN 0 ELSE CHOOSE j \in bad : \A h \in bad : j <= h

\* C4: a directory lookup, writer Open, replayed Put/Merge/Delete/
\* DeleteRange, Finish, reader Open or VerifyChecksum that returns a
\* non-success status is the last call of its iteration, and the iteration
\* is in ABORT: it makes no further call and does not return normally.
C4_FailFast ==
  \A i \in Insts :
    \A j \in CallsOf(i, CheckedCalls) :
      ~calls[i][j].ok => (j = Len(calls[i]) /\ pc[i] = "abort")

\* C4's case: a replayed call failed after an earlier one had succeeded, and
\* operations were still to be replayed.
C4_Witness ==
  /\ pc[1] = "abort"
  /\ Len(calls[1]) = 4
  /\ calls[1][3].ok
  /\ calls[1][4].api \in WriterOps
  /\ ~calls[1][4].ok
  /\ Len(input[1]) = 3

\* C5 as stated: an iteration whose writer Open succeeded and that returns
\* normally has no artifact file left at its path.
C5_ArtifactDeletedAtReturn ==
  \A i \in Insts :
    (pc[i] = "done" /\ \E j \in CallsOf(i, {"Open"}) : calls[i][j].ok)
      => ~FileAt(sstfile[i]).present

\* C6: an iteration handed an empty operation sequence returns normally
\* having made no call at all (no directory lookup, no writer or reader
\* open, no delete), and no artifact file exists.
C6_EmptyInputNoOp ==
  \A i \in Insts :
    (Entered(i) /\ Len(input[i]) = 0) =>
      /\ pc[i] = "done"
      /\ calls[i] = <<>>
      /\ sstfile[i] = NoPath
      /\ ~writerOpen[i]
      /\ \A p \in Paths : ~fs[p].present

\* C6's case: the target returned on an empty sequence, here one the
\* decoder delivered empty and the post-processor passed through.
C6_Witness ==
  /\ pc[1] = "done"
  /\ Len(input[1]) = 0
  /\ runs[1] >= 1

\* C7: when the sequence holds an operation of an unsupported type, the
\* iteration never goes past it: no operation at or after it is replayed,
\* and Finish, reader Open, VerifyChecksum and the delete are never called;
\* when the supported operations before it all succeeded, the iteration
\* does not abort but returns at that operation, and at the return the
\* writer holds no open file.
C7_UnsupportedShortCircuit ==
  \A i \in Insts :
    LET u == FirstUnsupported(input[i]) IN
    (Entered(i) /\ u > 0) =>
      /\ CallsOf(i, {"Finish", "ReaderOpen", "VerifyChecksum", "remove"}) = {}
      /\ Cardinality(CallsOf(i, WriterOps)) <= u - 1
      /\ idx[i] <= u
      /\ (Len(calls[i]) = u + 1 /\ \A j \in 1..Len(calls[i]) : calls[i][j].ok)
           => pc[i] \in {"replay", "done"}
      /\ pc[i] = "done" =>
           /\ ~writerOpen[i]
           /\ idx[i] = u
           /\ Len(calls[i]) = u + 1

\* C7's case: the iteration returned at an unsupported operation that came
\* after a supported one and before another operation.
C7_Witness ==
  /\ pc[1] = "done"
  /\ FirstUnsupported(input[1]) = 2
  /\ Len(input[1]) = 3
  /\ Len(calls[1]) = 3

\* C8 as stated: with instances running side by side, no instance opens,
\* overwrites, reads, verifies or deletes an artifact file that a peer
\* created, has not deleted and is still working on.
C8_PrivateArtifact == \A i \in Insts : ~foreign[i]

MayFollow(a, b) ==
  CASE a = "GetTestDirectory" -> b = "Open"
    [] a = "Open"             -> b \in WriterOps \cup {"Finish"}
    [] a \in WriterOps        -> b \in WriterOps \cup {"Finish"}
    [] a = "Finish"           -> b = "ReaderOpen"
    [] a = "ReaderOpen"       -> b = "VerifyChecksum"
    [] a = "VerifyChecksum"   -> b = "remove"
    [] OTHER                  -> FALSE

\* The phase of the harness state machine instance i is in.
Phase(i) ==
  CASE pc[i] \in {"idle", "decoded"}        -> "NONE"
    [] pc[i] \in {"processed", "wopen"}     -> "INIT"
    [] pc[i] = "replay" /\ ~LoopDone(i)     -> "WRITE"
    [] pc[i] = "replay" /\ LoopDone(i)      -> "FINALIZE"
    [] pc[i] = "ropen"                      -> "REOPEN"
    [] pc[i] = "verify"                     -> "VERIFY"
    [] pc[i] = "remove"                     -> "CLEANUP"
    [] pc[i] = "done"                       -> "DONE"
    [] pc[i] = "abort"                      -> "ABORT"

\* The calls of an iteration come in the order of the phases.
CallsInPhaseOrder(i) ==
  /\ Len(calls[i]) >= 1 => calls[i][1].api = "GetTestDirectory"
  /\ \A j \in 2..Len(calls[i]) :
       /\ calls[i][j - 1].ok
       /\ MayFollow(calls[i][j - 1].api, calls[i][j].api)
  /\ \A j \in CallsOf(i, {"Finish"}) : j = Len(input[i]) + 3

PhaseOrder == <<"NONE", "INIT", "WRITE", "FINALIZE", "REOPEN", "VERIFY", "CLEANUP", "DONE">>

Rank(ph) == CHOOSE k \in 1..Len(PhaseOrder) : PhaseOrder[k] = ph

\* A step takes instance i from phase a to phase b only forwards: to the
\* next phase, to ABORT, or by one of the two early returns (from INIT on an
\* empty sequence, from WRITE on an unsupported operation).
PhaseStep(i) ==
  LET a == Phase(i)
      b == Phase(i)'
  IN  \/ a = b
      \/ a \notin {"NONE", "DONE", "ABORT"} /\ b = "ABORT"
      \/ a \notin {"DONE", "ABORT"} /\ b # "ABORT" /\ Rank(b) = Rank(a) + 1
      \/ a = "INIT" /\ b = "DONE" /\ Len(input[i]) = 0
      \/ a = "WRITE" /\ b = "DONE" /\ FirstUnsupported(input[i]) = idx[i]

\* A terminal state is never left and no call follows it.
TerminalStays(i) ==
  pc[i] \in {"done", "abort"} => (pc'[i] = pc[i] /\ calls'[i] = calls[i])

\* C10: the phases of an iteration occur only in the order INIT, WRITE,
\* FINALIZE, REOPEN, VERIFY, CLEANUP, DONE, none of them skipped or entered
\* again; accordingly the calls occur only in the order directory lookup,
\* writer Open, the replayed operations, Finish, reader Open,
\* VerifyChecksum, delete, each of the single calls at most once and each
\* only after every call before it succeeded; Finish comes only after
\* every operation of the sequence was replayed; and once the iteration is
\* in DONE or ABORT it stays there and makes no further call.
C10_PhaseOrdering ==
  /\ [](\A i \in Insts : CallsInPhaseOrder(i))
  /\ [][\A i \in Insts : PhaseStep(i) /\ TerminalStays(i)]_vars

\* C10's case: an iteration went through every phase on a sequence of
\* several operations and is in DONE.
C10_Witness ==
  /\ Phase(1) = "DONE"
  /\ Len(input[1]) = 3
  /\ Len(calls[1]) = 9
  /\ calls[1][9].api = "remove"

(***************************************************************************)
(* Replay, cleanup, reachability of ABORT, termination.                    *)
(***************************************************************************)
\* The writer calls of instance i, in the order made.
WriterCalls(i) == SelectSeq(calls[i], LAMBDA c : c.api \in WriterOps)

\* The writer primitive each supported type is replayed with.
PrimitiveOf(type) ==
  CASE type = "PUT"          -> "Put"
    [] type = "MERGE"        -> "Merge"
    [] type = "DELETE"       -> "Delete"
    [] type = "DELETE_RANGE" -> "DeleteRange"
    [] OTHER                 -> "none"

\* C11: the writer calls of an iteration are, one for one and in the stored
\* order, the operations of the sequence from its first on: the k-th call
\* is the primitive of the k-th operation's type, with its key, and with its
\* value for Put, Merge and DeleteRange (the range end) and no value for
\* Delete.  The calls stop at the first failed call and before the first
\* unsupported operation; every operation before the loop position has been
\* replayed exactly once.
C11_ReplayInOrder ==
  \A i \in Insts :
    LET w == WriterCalls(i)
        u == FirstUnsupported(input[i])
    IN  Entered(i) =>
          /\ Len(w) <= Len(input[i])
          /\ \A k \in 1..Len(w) :
               /\ w[k].api = PrimitiveOf(input[i][k].type)
               /\ w[k].key = input[i][k].key
               /\ w[k].value = (IF input[i][k].type = "DELETE" THEN NoKey
                                ELSE input[i][k].value)
               /\ ~w[k].ok => k = Len(w)
          /\ u > 0 => Len(w) < u
          /\ pc[i] = "replay" => Len(w) = idx[i] - 1
          /\ CallsOf(i, {"Finish"}) # {} => Len(w) = Len(input[i])

\* C11's case: three operations of different types, a DELETE_RANGE and a
\* DELETE among them, were all replayed.
C11_Witness ==
  /\ Len(WriterCalls(1)) = 3
  /\ \E k \in 1..3 : input[1][k].type = "DELETE_RANGE"
  /\ \E k \in 1..3 : input[1][k].type = "DELETE"
  /\ pc[1] = "ropen"

\* Every call that comes before the delete on the success path was made
\* and succeeded.
AllSucceeded(i) ==
  /\ Len(calls[i]) >= Len(input[i]) + 5
  /\ \A j \in 1..(Len(input[i]) + 5) : calls[i][j].ok
  /\ calls[i][Len(input[i]) + 5].api = "VerifyChecksum"

\* C12: the delete is made exactly in the iterations in which writer Open,
\* every replayed operation, Finish, reader Open and VerifyChecksum all
\* succeeded: a delete in the log has all of them before it, and an
\* iteration that ended after all of them succeeded has made the delete.
\* An iteration that aborted after its writer Open succeeded has made no
\* delete, and its artifact file is still there.
C12_CleanupOnlyOnSuccess ==
  \A i \in Insts :
    /\ CallsOf(i, {"remove"}) # {} =>
         (AllSucceeded(i) /\ CallsOf(i, {"remove"}) = {Len(input[i]) + 6})
    /\ (AllSucceeded(i) /\ pc[i] \in {"done", "abort"}) => CallsOf(i, {"remove"}) # {}
    /\ (pc[i] = "abort" /\ \E j \in CallsOf(i, {"Open"}) : calls[i][j].ok) =>
         /\ CallsOf(i, {"remove"}) = {}
         /\ FileAt(sstfile[i]).present

\* C12's case: an iteration aborted at VerifyChecksum, after the writer and
\* the reader had been opened, and left its file.
C12_Witness ==
  /\ pc[1] = "abort"
  /\ calls[1][Len(calls[1])].api = "VerifyChecksum"
  /\ FileAt(sstfile[1]).present
  /\ Len(input[1]) >= 2

\* How often operation o occurs in s.
Count(s, o) == Cardinality({j \in 1..Len(s) : s[j] = o})

KeysOf(s) == {s[j].key : j \in 1..Len(s)}

\* C13: what a run of the post-processor leaves is made of operations of
\* the message it started from, key, type and value unmodified, none of
\* them more often than it occurred there; the keys left are exactly the
\* distinct keys of that message, one operation each, so an empty message
\* stays empty.
C13_ReordersAndDrops ==
  \A i \in Insts :
    Processed(i) =>
      /\ \A j \in 1..Len(input[i]) :
           Count(input[i], input[i][j]) <= Count(decoded[i], input[i][j])
      /\ KeysOf(input[i]) = KeysOf(decoded[i])
      /\ Len(input[i]) = Cardinality(KeysOf(decoded[i]))
      /\ Len(decoded[i]) = 0 => Len(input[i]) = 0

\* C13's case: a message with a repeated key and keys out of order was
\* reordered and one operation was dropped.
C13_Witness ==
  /\ Processed(1)
  /\ Len(decoded[1]) = 3
  /\ Len(input[1]) = 2
  /\ input[1][1] = decoded[1][3]

\* C15: within an iteration every writer call's key is strictly greater,
\* under the byte-wise comparator, than the key of the writer call before
\* it, whatever message the decoder delivered to the post-processor.
C15_WriterKeysAscending ==
  \A i \in Insts :
    LET w == WriterCalls(i)
    IN  \A k \in 1..(Len(w) - 1) : Compare(w[k].key, w[k + 1].key) < 0

\* C15's case: three writer calls were made in one iteration.
C15_Witness ==
  /\ Len(WriterCalls(1)) = 3
  /\ WriterCalls(1)[3].ok

\* The artifact file of instance i is damaged or incomplete.
Damaged(i) == FileAt(sstfile[i]).corrupt \/ ~FileAt(sstfile[i]).finished

\* In each of the phases INIT to VERIFY the call that is next can fail and
\* take the iteration to ABORT (for the reader's calls: on a damaged file,
\* and an intact file can be damaged).
AbortFromCheckedPhases(i) ==
  /\ (pc[i] = "processed" /\ Len(input[i]) > 0) =>
       ENABLED (GetTestDirectory(i) /\ pc'[i] = "abort")
  /\ pc[i] = "wopen" => ENABLED (WriterOpen(i) /\ pc'[i] = "abort")
  /\ (pc[i] = "replay" /\ ~LoopDone(i) /\ input[i][idx[i]].type \in SupportedTypes) =>
       ENABLED (Replay(i) /\ pc'[i] = "abort")
  /\ (pc[i] = "replay" /\ LoopDone(i)) => ENABLED (Finish(i) /\ pc'[i] = "abort")
  /\ (pc[i] = "ropen" /\ Damaged(i)) => ENABLED (ReaderOpen(i) /\ pc'[i] = "abort")
  /\ (pc[i] = "verify" /\ Damaged(i)) => ENABLED (VerifyChecksum(i) /\ pc'[i] = "abort")
  /\ (pc[i] \in {"ropen", "verify"} /\ ~Damaged(i)) => ENABLED Corrupt(sstfile[i])

\* C14 as stated: ABORT can be reached from INIT, WRITE, FINALIZE, REOPEN,
\* VERIFY and from CLEANUP, where a failed delete takes the iteration to
\* ABORT and never to a normal return.
C14_AbortFromEveryPhase ==
  \A i \in Insts :
    /\ AbortFromCheckedPhases(i)
    /\ pc[i] = "remove" => ENABLED (Remove(i) /\ pc'[i] = "abort")
    /\ \A j \in CallsOf(i, {"remove"}) : ~calls[i][j].ok => pc[i] = "abort"

\* C14 as amended: ABORT can be reached from INIT, WRITE, FINALIZE, REOPEN
\* and VERIFY by a failure of the call made there, but not from CLEANUP:
\* the delete can fail, its result is ignored, and the iteration returns
\* normally (DONE) whether the delete failed or not.
C14_AbortFromCheckedPhasesOnly ==
  \A i \in Insts :
    /\ AbortFromCheckedPhases(i)
    /\ pc[i] = "remove" =>
         /\ ~ENABLED (Remove(i) /\ pc'[i] = "abort")
         /\ ENABLED (Remove(i) /\ pc'[i] = "done" /\ ~calls'[i][Len(calls'[i])].ok)
    /\ \A j \in CallsOf(i, {"remove"}) : pc[i] = "done"

\* C14's case: the delete failed in CLEANUP and the iteration is in DONE,
\* with its file left.
C14_Witness ==
  /\ pc[1] = "done"
  /\ CallsOf(1, {"remove"}) # {}
  /\ ~calls[1][Len(calls[1])].ok
  /\ FileAt(sstfile[1]).present

\* Instance i's iteration has ended: it returned normally or aborted.
Terminated(i) == pc[i] \in {"done", "abort"}

\* A step never takes instance i back: the loop position and the call log
\* only grow, by at most one call.
NoWayBack(i) ==
  /\ idx'[i] >= idx[i]
  /\ \/ calls'[i] = calls[i]
     \/ /\ Len(calls'[i]) = Len(calls[i]) + 1
        /\ SubSeq(calls'[i], 1, Len(calls[i])) = calls[i]

\* C16: when every call returns, every iteration eventually ends, either
\* returned normally or aborted, and stays in that one outcome; it makes at
\* most one writer call per operation of the sequence, and no step takes it
\* back to an earlier phase or to an earlier operation.
C16_Terminates ==
  /\ \A i \in Insts : <>(pc[i] = "idle" \/ Terminated(i))
  /\ [](\A i \in Insts : Len(WriterCalls(i)) <= Len(input[i]))
  /\ [][\A i \in Insts : TerminalStays(i) /\ NoWayBack(i) /\ PhaseStep(i)]_vars

\* C16's case: an iteration on three operations ended after one writer call
\* for each of them.
C16_Witness ==
  /\ Terminated(1)
  /\ Len(input[1]) = 3
  /\ Len(WriterCalls(1)) = 3

=============================================================================
